---- MODULE Spec2Model ----
(***************************************************************************)
(* State-machine model of features/steps/web_steps.py: the behave step     *)
(* implementations that drive a page through Selenium.                     *)
(*                                                                         *)
(* Strings are sequences of one-character strings, so that lower(),        *)
(* replace(), concatenation and the substring test `in` are computed.      *)
(* Time is counted in poll intervals of WebDriverWait: `elapsed` is the    *)
(* number of poll intervals slept since the running step was called.       *)
(* The page is the environment: between two driver calls of a step it may  *)
(* render, remove or rewrite the elements the running step looks at.       *)
(***************************************************************************)
EXTENDS Integers, Sequences, FiniteSets

VARIABLES
    present,    \* ids of the elements currently in the DOM
    value,      \* field id -> content of the input / selected option
    text,       \* container id (and Body) -> own visible text
    clickable,  \* ids of the buttons that are displayed and enabled
    clipboard,  \* context.clipboard: [defined, value]
    step,       \* the step the runner is executing
    name,       \* its {element_name} / {button} capture
    arg,        \* its {text_string} / {text} / {message} capture
    locator,    \* the element id the step addresses
    pc,         \* position inside the step
    element,    \* the WebElement handle the step holds
    stale,      \* that handle's element has been removed from the DOM
    elapsed,    \* poll intervals since the step was called
    outcome,    \* how the step ended
    observed,   \* poll tick at which the awaited condition was seen true
    clicked,    \* ids on which this step invoked click()
    copied      \* history: what the copied field held when it was copied

dom  == <<present, value, text, clickable>>
ctx  == <<clipboard, copied>>
call == <<step, name, arg, locator>>
run  == <<pc, element, stale, elapsed, outcome, observed, clicked>>
vars == <<present, value, text, clickable, clipboard, step, name, arg, locator,
          pc, element, stale, elapsed, outcome, observed, clicked, copied>>

----------------------------------------------------------------------------
(* Bounds *)

\* context.wait_seconds, in poll intervals
WaitSeconds == 2

----------------------------------------------------------------------------
(* Strings *)

ID_PREFIX == <<"p", "r", "o", "d", "u", "c", "t", "_">>

ButtonSuffix == <<"-", "b", "t", "n">>

\* str.lower() on the characters that occur
LowerChar(c) ==
    CASE c = "X" -> "x"
      [] c = "Y" -> "y"
      [] c = "Z" -> "z"
      [] c = "S" -> "s"
      [] c = "C" -> "c"
      [] OTHER -> c

Lower(s) == [i \in 1..Len(s) |-> LowerChar(s[i])]

\* str.replace(old, new) for one-character old and new
Replace(s, old, new) == [i \in 1..Len(s) |-> IF s[i] = old THEN new ELSE s[i]]

\* `needle in hay`
Contains(hay, needle) ==
    \E i \in 0..(Len(hay) - Len(needle)) :
        \A j \in 1..Len(needle) : hay[i + j] = needle[j]

----------------------------------------------------------------------------
(* Locator resolution *)

\* mutant: the name is not lowercased
ElementIdNoLower(element_name) == ID_PREFIX \o Replace(element_name, " ", "_")

ElementId(element_name) == ID_PREFIX \o Replace(Lower(element_name), " ", "_")

\* mutant: the spaces become underscores, as in a field id
ButtonIdUnderscore(button) == Replace(Lower(button), " ", "_") \o ButtonSuffix

ButtonId(button) == Replace(Lower(button), " ", "-") \o ButtonSuffix

MessageIds == << <<"f", "l", "a", "s", "h", "_", "m", "e", "s", "s", "a", "g", "e">>,
                 <<"m", "e", "s", "s", "a", "g", "e">>,
                 <<"f", "l", "a", "s", "h">> >>

ResultIds == << <<"s", "e", "a", "r", "c", "h", "_", "r", "e", "s", "u", "l", "t", "s">>,
                <<"r", "e", "s", "u", "l", "t", "s">> >>

Body == <<"b", "o", "d", "y">>

NoElement == <<>>

Range(seq) == {seq[i] : i \in 1..Len(seq)}

\* mutant: when no id resolves, the last one is taken
FirstPresentOrLast(possible_ids, dom_ids) ==
    IF \E i \in 1..Len(possible_ids) : possible_ids[i] \in dom_ids
    THEN CHOOSE i \in 1..Len(possible_ids) :
            /\ possible_ids[i] \in dom_ids
            /\ \A j \in 1..(i - 1) : possible_ids[j] \notin dom_ids
    ELSE Len(possible_ids)

\* for rid in possible_ids: elems = find_elements(By.ID, rid); if elems: ...; break
\* the index of the first id that resolves, 0 when none does
FirstPresent(possible_ids, dom_ids) ==
    IF \E i \in 1..Len(possible_ids) : possible_ids[i] \in dom_ids
    THEN CHOOSE i \in 1..Len(possible_ids) :
            /\ possible_ids[i] \in dom_ids
            /\ \A j \in 1..(i - 1) : possible_ids[j] \notin dom_ids
    ELSE 0

----------------------------------------------------------------------------
(* The page under test and the captures the runner passes to the steps *)

ProductX == <<"p", "r", "o", "d", "u", "c", "t", "_", "x">>

ProductYZ == <<"p", "r", "o", "d", "u", "c", "t", "_", "y", "_", "z">>

ProductS == <<"p", "r", "o", "d", "u", "c", "t", "_", "s">>

CBtn == <<"c", "-", "b", "t", "n">>

SXBtn == <<"s", "-", "x", "-", "b", "t", "n">>

FieldIds == {ProductX, ProductYZ, ProductS}

ButtonIds == {CBtn, SXBtn}

ContainerIds == Range(MessageIds) \cup Range(ResultIds)

\* the tag of each field of the page: two text inputs and one dropdown
Tag(id) == IF id = ProductS THEN "select" ELSE "input"

FieldNames == {<<"X">>, <<"Y", " ", "z">>, <<"S">>}

ButtonNames == {<<"C">>, <<"S", " ", "x">>}

\* {text_string}, {text}, {message}: behave captures are never empty
Args == {<<"a">>, <<"b">>}

Values == {<<>>} \cup Args

\* the visible texts of the options of the dropdown
Options == {<<"a">>}

Texts == Args

\* the texts the rest of the page may show
BodyTexts == {<<>>, <<"a">>}

\* element.text of the body: the text of the result containers in it, after
\* the text of the rest of the page
BodyText == text[Body] \o text[ResultIds[1]] \o text[ResultIds[2]]

\* element.text
ElementText(e) == IF e = Body THEN BodyText ELSE text[e]

\* mutant: element.text is read, which is empty for an input
GetAttributeText(e) == <<>>

\* element.get_attribute("value")
GetAttribute(e) == value[e]

\* mutant: the field is not cleared
ClearNothing(v) == v

\* element.clear()
Clear(v) == <<>>

\* element.send_keys(keys): the keys are typed after what the field holds
SendKeys(v, keys) == v \o keys

----------------------------------------------------------------------------
(* The steps *)

FieldWaitSteps == {"copy", "paste", "change", "see_field"}

FieldFindSteps == {"set", "select", "see_dropdown", "field_empty"}

FieldSteps == FieldWaitSteps \cup FieldFindSteps

PolledSteps == FieldWaitSteps \cup {"press", "see_message", "see_results"}

TextSteps == {"set", "select", "see_dropdown", "change", "see_field",
              "see_message", "see_results", "not_see_results", "not_see"}

Failures == {"TimeoutException", "AssertionError", "NoSuchElementException",
             "StaleElementReferenceException", "AttributeError",
             "UnexpectedTagNameException", "InvalidElementStateException"}

\* The page as loaded: the form is there, no message or result is shown yet.
Loaded ==
    /\ present' = FieldIds \cup ButtonIds
    /\ text' = [c \in ContainerIds \cup {Body} |-> <<>>]
    /\ clickable' = ButtonIds

Init ==
    /\ present = FieldIds \cup ButtonIds
    /\ value \in {v \in [FieldIds -> Values] : v[ProductS] \in Options}
    /\ text = [c \in ContainerIds \cup {Body} |-> <<>>]
    /\ clickable = ButtonIds
    /\ clipboard = [defined |-> FALSE, value |-> <<>>]
    /\ copied = [defined |-> FALSE, value |-> <<>>]
    /\ step = "none"
    /\ name = <<>>
    /\ arg = <<>>
    /\ locator = NoElement
    /\ pc = "idle"
    /\ element = NoElement
    /\ stale = FALSE
    /\ elapsed = 0
    /\ outcome = "none"
    /\ observed = -1
    /\ clicked = {}

\* The runner dispatches the next step of the scenario; a failed step aborts it.
\* The step computes the id it addresses from its capture.  What the page shows
\* when the step makes its first driver call is for the page to decide: it
\* starts from the loaded page and changes what the step looks at (see Watched).
Dispatch(s, n, a, id, first) ==
    /\ pc \in {"idle", "done"}
    /\ outcome \in {"none", "pass"}
    /\ step' = s
    /\ name' = n
    /\ arg' = a
    /\ locator' = id
    /\ pc' = first
    /\ element' = NoElement
    /\ stale' = FALSE
    /\ elapsed' = 0
    /\ outcome' = "none"
    /\ observed' = -1
    /\ clicked' = {}
    /\ Loaded
    /\ UNCHANGED <<value, ctx>>

CallFieldStep ==
    \E s \in FieldSteps, n \in FieldNames, a \in Args :
        Dispatch(s, n, IF s \in TextSteps THEN a ELSE <<>>, ElementId(n),
                 IF s \in FieldWaitSteps THEN "wait" ELSE "find")

CallPressButton ==
    \E n \in ButtonNames : Dispatch("press", n, <<>>, ButtonId(n), "wait")

CallContainerStep ==
    \E s \in {"see_message", "see_results", "not_see_results", "not_see"}, a \in Args :
        Dispatch(s, <<>>, a, NoElement, "scan")

----------------------------------------------------------------------------
(* The page: it renders asynchronously while a step is working.  Only the  *)
(* elements the running step looks at are followed.  After a step has      *)
(* failed, what was missing may still show up: the page is followed until  *)
(* the wait budget of the failed step would have ended.                    *)

Watched ==
    CASE step \in FieldSteps \cup {"press"} -> {locator} \cap (FieldIds \cup ButtonIds)
      [] step = "see_message" -> Range(MessageIds) \cup {Body}
      [] step \in {"see_results", "not_see_results"} -> Range(ResultIds) \cup {Body}
      [] step = "not_see" -> {Body}
      [] OTHER -> {}

\* (a step that has seen its message or its field value makes no further
\* driver call)
PageActive ==
    \/ pc \in {"find", "scan", "wait"}
    \/ pc = "act" /\ step \notin {"see_message", "see_field"}

PageLate == pc = "done" /\ outcome \in Failures /\ elapsed < WaitSeconds

\* (a negative assertion that has passed: the text may still come up)
PageAfter ==
    pc = "done" /\ outcome = "pass" /\ step \in {"not_see_results", "not_see"}

Render ==
    \E id \in Watched \ (present \cup {Body}) :
      \E t \in IF id \in ContainerIds THEN Texts ELSE {<<>>} :
        /\ PageActive \/ PageLate \/ PageAfter
        /\ present' = present \cup {id}
        /\ text' = IF id \in ContainerIds THEN [text EXCEPT ![id] = t] ELSE text
        /\ UNCHANGED <<value, clickable, ctx, call, run>>

Remove ==
    \E id \in Watched \cap present :
        /\ PageActive
        /\ present' = present \ {id}
        /\ text' = IF id \in ContainerIds THEN [text EXCEPT ![id] = <<>>] ELSE text
        /\ clickable' = clickable \ {id}
        /\ stale' = (stale \/ element = id)
        /\ UNCHANGED <<value, ctx, call, pc, element, elapsed, outcome, observed, clicked>>

Rewrite ==
    \E id \in Watched \cap ((ContainerIds \cap present) \cup {Body}),
       t \in Texts \cup BodyTexts :
        /\ PageActive \/ PageAfter
        /\ t # text[id]
        /\ IF id = Body THEN t \in BodyTexts ELSE t \in Texts
        /\ text' = [text EXCEPT ![id] = t]
        /\ UNCHANGED <<present, value, clickable, ctx, call, run>>

Enable ==
    \E id \in Watched \cap ButtonIds \cap present :
        /\ PageActive
        /\ id \notin clickable
        /\ clickable' = clickable \cup {id}
        /\ UNCHANGED <<present, value, text, ctx, call, run>>

Disable ==
    \E id \in Watched \cap clickable :
        /\ PageActive
        /\ clickable' = clickable \ {id}
        /\ UNCHANGED <<present, value, text, ctx, call, run>>

\* time goes on after a step has failed, up to the end of its wait budget
Tick ==
    /\ pc = "done"
    /\ outcome \in Failures
    /\ elapsed < WaitSeconds
    /\ elapsed' = elapsed + 1
    /\ UNCHANGED <<dom, ctx, call, pc, element, stale, outcome, observed, clicked>>

----------------------------------------------------------------------------
(* Looking up elements without waiting *)

\* mutant: the field is awaited, as in the change step
FindElementWaiting ==
    /\ pc = "find"
    /\ pc' = "wait"
    /\ UNCHANGED <<dom, ctx, call, element, stale, elapsed, outcome, observed, clicked>>

\* context.driver.find_element(By.ID, element_id)
FindElement ==
    /\ pc = "find"
    /\ IF locator \in present
       THEN /\ element' = locator
            /\ pc' = "act"
            /\ UNCHANGED outcome
       ELSE /\ outcome' = "NoSuchElementException"
            /\ pc' = "done"
            /\ UNCHANGED element
    /\ UNCHANGED <<dom, ctx, call, stale, elapsed, observed, clicked>>

\* mutant: the loop has no break, the last id that resolves is kept
ContainerNoBreak(possible_ids, dom_ids) ==
    IF \A i \in 1..Len(possible_ids) : possible_ids[i] \notin dom_ids
    THEN Body
    ELSE possible_ids[CHOOSE i \in 1..Len(possible_ids) :
                        /\ possible_ids[i] \in dom_ids
                        /\ \A j \in (i + 1)..Len(possible_ids) :
                              possible_ids[j] \notin dom_ids]

\* the results container: the first of possible_ids that resolves, else the body
Container(possible_ids, dom_ids) ==
    IF FirstPresent(possible_ids, dom_ids) = 0
    THEN Body
    ELSE possible_ids[FirstPresent(possible_ids, dom_ids)]

\* found: some id of possible_ids resolves
Found(possible_ids, dom_ids) == FirstPresent(possible_ids, dom_ids) # 0

\* mutant: the message role falls back to the body, as the results role does
ScanMessageBodyFallback ==
    /\ pc = "scan"
    /\ step = "see_message"
    /\ locator' = Container(MessageIds, present)
    /\ pc' = "wait"
    /\ UNCHANGED <<dom, ctx, step, name, arg, element, stale, elapsed, outcome,
                   observed, clicked>>

\* I should see the message: the loop over possible_ids up to the wait
ScanMessage ==
    /\ pc = "scan"
    /\ step = "see_message"
    /\ IF Found(MessageIds, present)
       THEN /\ locator' = MessageIds[FirstPresent(MessageIds, present)]
            /\ pc' = "wait"
            /\ UNCHANGED outcome
       ELSE /\ outcome' = "AssertionError"
            /\ pc' = "done"
            /\ UNCHANGED locator
    /\ UNCHANGED <<dom, ctx, step, name, arg, element, stale, elapsed,
                   observed, clicked>>

\* mutant: the negative results assertion waits as the positive one does
ScanResultsAllWait ==
    /\ pc = "scan"
    /\ step \in {"see_results", "not_see_results"}
    /\ element' = Container(ResultIds, present)
    /\ locator' = element'
    /\ pc' = "wait"
    /\ UNCHANGED <<dom, ctx, step, name, arg, stale, elapsed, outcome,
                   observed, clicked>>

\* I should (not) see in the results: the choice of the container
ScanResults ==
    /\ pc = "scan"
    /\ step \in {"see_results", "not_see_results"}
    /\ element' = Container(ResultIds, present)
    /\ locator' = element'
    /\ pc' = IF step = "see_results" THEN "wait" ELSE "act"
    /\ UNCHANGED <<dom, ctx, step, name, arg, stale, elapsed, outcome,
                   observed, clicked>>

\* I should not see: find_element(By.TAG_NAME, "body")
FindBody ==
    /\ pc = "scan"
    /\ step = "not_see"
    /\ element' = Body
    /\ locator' = Body
    /\ pc' = "act"
    /\ UNCHANGED <<dom, ctx, step, name, arg, stale, elapsed, outcome,
                   observed, clicked>>

----------------------------------------------------------------------------
(* WebDriverWait(context.driver, context.wait_seconds).until(condition)    *)

\* mutant: the button is awaited with presence_of_element_located
AwaitedPresence ==
    CASE step \in {"copy", "paste", "change", "press"} -> locator \in present
      [] step = "see_message" -> locator \in present /\ Contains(text[locator], arg)
      [] step = "see_field" -> locator \in present /\ Contains(value[locator], arg)
      [] step = "see_results" -> Contains(ElementText(element), arg)
      [] OTHER -> FALSE

\* mutant: the message is awaited in any of the candidates
AwaitedAnyMessage ==
    CASE step \in {"copy", "paste", "change"} -> locator \in present
      [] step = "press" -> locator \in present /\ locator \in clickable
      [] step = "see_message" ->
            \E i \in 1..Len(MessageIds) :
                MessageIds[i] \in present /\ Contains(text[MessageIds[i]], arg)
      [] step = "see_field" -> locator \in present /\ Contains(value[locator], arg)
      [] step = "see_results" -> Contains(ElementText(element), arg)
      [] OTHER -> FALSE

\* the condition each polled step waits for
Awaited ==
    CASE step \in {"copy", "paste", "change"} -> locator \in present
      [] step = "press" -> locator \in present /\ locator \in clickable
      [] step = "see_message" -> locator \in present /\ Contains(text[locator], arg)
      [] step = "see_field" -> locator \in present /\ Contains(value[locator], arg)
      [] step = "see_results" -> Contains(ElementText(element), arg)
      [] OTHER -> FALSE

\* mutant: the wait gives up one poll early
TimedOutEarly(t) == t >= WaitSeconds - 1

\* mutant: the wait polls once more after the budget
TimedOutLate(t) == t > WaitSeconds

\* the wait budget is used up
TimedOut(t) == t >= WaitSeconds

\* the lambda of the results step reads a handle whose element is gone
PollRaises == step = "see_results" /\ stale

PollTrue ==
    /\ pc = "wait"
    /\ ~PollRaises
    /\ Awaited
    /\ observed' = elapsed
    /\ element' = IF step = "see_results" THEN element ELSE locator
    /\ pc' = "act"
    /\ UNCHANGED <<dom, ctx, call, stale, elapsed, outcome, clicked>>

PollSleep ==
    /\ pc = "wait"
    /\ ~PollRaises
    /\ ~Awaited
    /\ ~TimedOut(elapsed)
    /\ elapsed' = elapsed + 1
    /\ UNCHANGED <<dom, ctx, call, pc, element, stale, outcome, observed, clicked>>

\* mutant: a timeout starts the wait again
PollTimeoutRestart ==
    /\ pc = "wait"
    /\ ~PollRaises
    /\ ~Awaited
    /\ TimedOut(elapsed)
    /\ elapsed' = 0
    /\ UNCHANGED <<dom, ctx, call, pc, element, stale, outcome, observed, clicked>>

PollTimeout ==
    /\ pc = "wait"
    /\ ~PollRaises
    /\ ~Awaited
    /\ TimedOut(elapsed)
    /\ outcome' = "TimeoutException"
    /\ pc' = "done"
    /\ UNCHANGED <<dom, ctx, call, element, stale, elapsed, observed, clicked>>

PollStale ==
    /\ pc = "wait"
    /\ PollRaises
    /\ outcome' = "StaleElementReferenceException"
    /\ pc' = "done"
    /\ UNCHANGED <<dom, ctx, call, element, stale, elapsed, observed, clicked>>

----------------------------------------------------------------------------
(* What each step does with the element it holds *)

\* the step ends with outcome o, leaving the page and the context as they are
End(o) ==
    /\ outcome' = o
    /\ pc' = "done"
    /\ UNCHANGED <<dom, ctx, call, element, stale, elapsed, observed, clicked>>

\* the step ends with outcome o, field `element` holding v
EndWithValue(o, v) ==
    /\ outcome' = o
    /\ pc' = "done"
    /\ value' = [value EXCEPT ![element] = v]
    /\ UNCHANGED <<present, text, clickable, ctx, call, element, stale, elapsed,
                   observed, clicked>>

Acting(s) == pc = "act" /\ step = s

\* element.clear(); element.send_keys(keys), the keys being an expression
\* that is evaluated after clear() and raises when it is undefined
ClearAndSendKeys(keys) ==
    IF stale THEN End("StaleElementReferenceException")
    ELSE IF Tag(element) # "input" THEN End("InvalidElementStateException")
    ELSE IF ~keys.defined THEN EndWithValue("AttributeError", Clear(value[element]))
    ELSE EndWithValue("pass", SendKeys(Clear(value[element]), keys.value))

\* I set the "{element_name}" to "{text_string}"
SetField ==
    /\ Acting("set")
    /\ ClearAndSendKeys([defined |-> TRUE, value |-> arg])

\* I change "{element_name}" to "{text_string}"
ChangeField ==
    /\ Acting("change")
    /\ ClearAndSendKeys([defined |-> TRUE, value |-> arg])

\* mutant: pasting empties the clipboard
PasteFieldCut ==
    /\ Acting("paste")
    /\ IF stale \/ Tag(element) # "input" \/ ~clipboard.defined
       THEN ClearAndSendKeys(clipboard)
       ELSE /\ value' = [value EXCEPT ![element] = SendKeys(Clear(value[element]), clipboard.value)]
            /\ clipboard' = [defined |-> FALSE, value |-> <<>>]
            /\ outcome' = "pass"
            /\ pc' = "done"
            /\ UNCHANGED <<present, text, clickable, copied, call, element, stale,
                           elapsed, observed, clicked>>

\* I paste the "{element_name}" field
PasteField ==
    /\ Acting("paste")
    /\ ClearAndSendKeys(clipboard)

\* I copy the "{element_name}" field
CopyField ==
    /\ Acting("copy")
    /\ IF stale
       THEN End("StaleElementReferenceException")
       ELSE /\ clipboard' = [defined |-> TRUE, value |-> GetAttribute(element)]
            /\ copied' = [defined |-> TRUE, value |-> value[locator]]
            /\ outcome' = "pass"
            /\ pc' = "done"
            /\ UNCHANGED <<dom, call, element, stale, elapsed, observed, clicked>>

\* I select "{text}" in the "{element_name}" dropdown
SelectDropdown ==
    /\ Acting("select")
    /\ IF stale THEN End("StaleElementReferenceException")
       ELSE IF Tag(element) # "select" THEN End("UnexpectedTagNameException")
       ELSE IF arg \notin Options THEN End("NoSuchElementException")
       ELSE EndWithValue("pass", arg)

\* I should see "{text}" in the "{element_name}" dropdown
SeeDropdown ==
    /\ Acting("see_dropdown")
    /\ IF stale THEN End("StaleElementReferenceException")
       ELSE IF Tag(element) # "select" THEN End("UnexpectedTagNameException")
       ELSE IF value[element] = arg THEN End("pass")
       ELSE End("AssertionError")

\* the "{element_name}" field should be empty
FieldEmpty ==
    /\ Acting("field_empty")
    /\ IF stale THEN End("StaleElementReferenceException")
       ELSE IF GetAttribute(element) = <<>> THEN End("pass")
       ELSE End("AssertionError")

\* I press the "{button}" button: element.click()
PressButton ==
    /\ Acting("press")
    /\ IF stale
       THEN End("StaleElementReferenceException")
       ELSE /\ clicked' = clicked \cup {element}
            /\ outcome' = "pass"
            /\ pc' = "done"
            /\ UNCHANGED <<dom, ctx, call, element, stale, elapsed, observed>>

\* I should see the message "{message}": found = True; break; assert found
SeeMessage ==
    /\ Acting("see_message")
    /\ End("pass")

\* I should see "{text_string}" in the "{element_name}" field: assert found
SeeField ==
    /\ Acting("see_field")
    /\ End("pass")

\* I should see "{text}" in the results: assert text in container.text
SeeResults ==
    /\ Acting("see_results")
    /\ IF stale THEN End("StaleElementReferenceException")
       ELSE IF Contains(ElementText(element), arg) THEN End("pass")
       ELSE End("AssertionError")

\* I should not see "{text}" in the results: assert text not in container.text
NotSeeResults ==
    /\ Acting("not_see_results")
    /\ IF stale THEN End("StaleElementReferenceException")
       ELSE IF ~Contains(ElementText(element), arg) THEN End("pass")
       ELSE End("AssertionError")

\* I should not see "{text_string}": assert text_string not in element.text
NotSee ==
    /\ Acting("not_see")
    /\ IF ~Contains(ElementText(element), arg) THEN End("pass")
       ELSE End("AssertionError")

----------------------------------------------------------------------------

Page == Render \/ Remove \/ Rewrite \/ Enable \/ Disable \/ Tick

Next ==
    \/ CallFieldStep
    \/ CallPressButton
    \/ CallContainerStep
    \/ FindElement
    \/ ScanMessage
    \/ ScanResults
    \/ FindBody
    \/ PollTrue
    \/ PollSleep
    \/ PollTimeout
    \/ PollStale
    \/ SetField
    \/ ChangeField
    \/ PasteField
    \/ CopyField
    \/ SelectDropdown
    \/ SeeDropdown
    \/ FieldEmpty
    \/ PressButton
    \/ SeeMessage
    \/ SeeField
    \/ SeeResults
    \/ NotSeeResults
    \/ NotSee
    \/ Page

Spec == Init /\ [][Next]_vars

\* the statements of a step that has been called: the interpreter runs them
\* one after the other, and the wait loop keeps polling
Step ==
    \/ FindElement
    \/ ScanMessage
    \/ ScanResults
    \/ FindBody
    \/ PollTrue
    \/ PollSleep
    \/ PollTimeout
    \/ PollStale
    \/ SetField
    \/ ChangeField
    \/ PasteField
    \/ CopyField
    \/ SelectDropdown
    \/ SeeDropdown
    \/ FieldEmpty
    \/ PressButton
    \/ SeeMessage
    \/ SeeField
    \/ SeeResults
    \/ NotSeeResults
    \/ NotSee

\* a called step is not suspended for ever, whatever the page does meanwhile
FairSpec == Spec /\ WF_vars(Step)

----------------------------------------------------------------------------
(* Claims *)

\* "product_" + lowercase(N) with every space replaced by an underscore
C1_Expected(n) ==
    ID_PREFIX \o [i \in 1..Len(n) |-> IF n[i] = " " THEN "_" ELSE LowerChar(n[i])]

\* C1: every field-targeting step (set, change, select, read dropdown,
\* field-empty, copy, paste, field-contains) called with field name N addresses
\* the element id "product_" + lowercase(N) with spaces replaced by
\* underscores, whatever the step and however often it is called: the id it
\* looks up, the handle it holds and the only field it may write are that id.
C1_FieldLocator ==
    /\ [](step \in FieldSteps =>
            /\ locator = C1_Expected(name)
            /\ element \in {NoElement, C1_Expected(name)})
    /\ [][step' \in FieldSteps =>
            \A f \in FieldIds : value'[f] # value[f] => f = C1_Expected(name')]_vars

\* C1 witness: a paste into the field named "Y z" has written product_y_z
C1_Witness ==
    /\ step = "paste"
    /\ name = <<"Y", " ", "z">>
    /\ outcome = "pass"
    /\ element = ProductYZ
    /\ value[ProductYZ] = <<"b">>

\* lowercase(B) with every space replaced by a hyphen, followed by "-btn"
C2_Expected(b) ==
    [i \in 1..Len(b) |-> IF b[i] = " " THEN "-" ELSE LowerChar(b[i])] \o ButtonSuffix

\* C2: the press-button step called with label B clicks the element whose id is
\* lowercase(B) with spaces replaced by hyphens, followed by "-btn", and no
\* other element; no other step clicks anything.
C2_ButtonLocator ==
    /\ step = "press" => locator = C2_Expected(name) /\ clicked \subseteq {C2_Expected(name)}
    /\ step # "press" => clicked = {}

\* C2 witness: pressing "S x" has clicked s-x-btn
C2_Witness ==
    /\ step = "press"
    /\ name = <<"S", " ", "x">>
    /\ outcome = "pass"
    /\ clicked = {SXBtn}

\* some message container is in the DOM
C3_SomeMessageContainer == \E i \in 1..3 : MessageIds[i] \in present

\* some message container in the DOM shows the expected message
C3_MessageShown ==
    \E i \in 1..3 : MessageIds[i] \in present /\ Contains(text[MessageIds[i]], arg)

\* C3 as claimed: when the message assertion was called with no message
\* container in the DOM and one shows the expected text within the wait
\* budget, the step does not fail.
C3_Original ==
    (/\ step = "see_message"
     /\ pc # "scan"
     /\ locator = NoElement
     /\ elapsed <= WaitSeconds
     /\ C3_MessageShown) => outcome \notin Failures

\* C3 as amended: the message assertion looks for its container once, when it
\* is called.  With no container in the DOM at that moment it fails at once
\* with an assertion error and stays failed even when a container with the
\* expected text appears within the budget; it passes only on a container
\* found at the call, whose text was seen to contain the message at a poll
\* tick within the budget.
C3_Amended ==
    /\ [][(step = "see_message" /\ pc = "scan" /\ pc' # "scan") =>
            IF C3_SomeMessageContainer
            THEN pc' = "wait" /\ locator' \in present /\ outcome' = "none"
            ELSE pc' = "done" /\ outcome' = "AssertionError" /\ elapsed' = 0]_vars
    /\ [][(step = "see_message" /\ outcome = "AssertionError") =>
            step' = "see_message" /\ outcome' = "AssertionError"]_vars
    /\ []((step = "see_message" /\ outcome = "pass") =>
            locator \in Range(MessageIds) /\ observed \in 0..WaitSeconds)

\* C3 witness: the step has failed for want of a container, and a container
\* showing the message has appeared within the budget
C3_Witness ==
    /\ step = "see_message"
    /\ outcome = "AssertionError"
    /\ locator = NoElement
    /\ elapsed = 1
    /\ C3_MessageShown

\* C4 as claimed: when no message container appears, the message assertion
\* ends in a timeout error, and only when the wait budget has elapsed.
C4_Original ==
    (/\ step = "see_message"
     /\ pc = "done"
     /\ locator = NoElement
     /\ ~C3_SomeMessageContainer) =>
        outcome = "TimeoutException" /\ elapsed = WaitSeconds

\* C4 as amended: the message assertion fails in one of two ways.  With no
\* message container in the DOM when it is called, it fails at once, before
\* any wait, with an assertion error.  With a container found at the call, it
\* fails with a timeout error, exactly when the wait budget has elapsed (at no
\* earlier poll tick and at no later one), the container not showing the
\* message at that last poll.
C4_Amended ==
    [][(step = "see_message" /\ pc # "done" /\ pc' = "done" /\ outcome' # "pass") =>
         \/ /\ pc = "scan"
            /\ ~C3_SomeMessageContainer
            /\ outcome' = "AssertionError"
            /\ elapsed' = 0
         \/ /\ pc = "wait"
            /\ locator \in Range(MessageIds)
            /\ ~(locator \in present /\ Contains(text[locator], arg))
            /\ outcome' = "TimeoutException"
            /\ elapsed' = WaitSeconds]_vars

\* C4 witness: no container, and the step has failed without waiting
C4_Witness ==
    /\ step = "see_message"
    /\ pc = "done"
    /\ ~C3_SomeMessageContainer
    /\ locator = NoElement
    /\ outcome = "AssertionError"
    /\ elapsed = 0

\* C5 as claimed: with none of flash_message, message, flash in the DOM the
\* message assertion is evaluated against the body, and ends in a text match
\* or mismatch, never in a 'no container found' failure.
C5_Original ==
    (step = "see_message" /\ pc = "done" /\ locator \notin Range(MessageIds)) =>
        locator = Body /\ outcome \in {"pass", "TimeoutException"}

\* C5 as amended: only the results role ends with the body as fallback.  The
\* message role has no fallback: its candidates are flash_message, message and
\* flash alone, the body is never one, and when none of the three is in the DOM
\* at the call the step fails with the 'could not find a message element'
\* assertion error whatever the body shows.
C5_Amended ==
    /\ (step = "see_message" /\ pc # "scan") =>
            /\ locator \in Range(MessageIds) \cup {NoElement}
            /\ element \in Range(MessageIds) \cup {NoElement}
            /\ locator = NoElement => pc = "done" /\ outcome = "AssertionError"
    /\ (step \in {"see_results", "not_see_results"} /\ pc # "scan") =>
            element \in Range(ResultIds) \cup {Body}

\* C5 witness: the body shows the message, and the step has failed for want of
\* a message container
C5_Witness ==
    /\ step = "see_message"
    /\ pc = "done"
    /\ outcome = "AssertionError"
    /\ locator = NoElement
    /\ Contains(BodyText, arg)

\* the container the results role stands for on the page as it is
C6_Expected ==
    IF ResultIds[1] \in present THEN ResultIds[1]
    ELSE IF ResultIds[2] \in present THEN ResultIds[2]
    ELSE Body

\* C6: the results assertions take search_results when it is in the DOM, else
\* results when that is, else the body; the positive one awaits and asserts the
\* expected text in the text of that container, the negative one asserts its
\* absence from it.
C6_ResultsContainer ==
    /\ [][(step \in {"see_results", "not_see_results"} /\ pc = "scan" /\ pc' # "scan") =>
            element' = C6_Expected]_vars
    /\ [][(step = "see_results" /\ pc = "wait" /\ pc' = "act") =>
            Contains(ElementText(element), arg)]_vars
    /\ [][(step \in {"see_results", "not_see_results"} /\ pc = "act" /\ pc' = "done"
             /\ outcome' \in {"pass", "AssertionError"}) =>
            ((outcome' = "pass") <=>
                (step = "see_results" <=> Contains(ElementText(element), arg)))]_vars

\* C6 witness: neither container exists and the positive assertion has passed
\* on the body
C6_Witness ==
    /\ step = "see_results"
    /\ outcome = "pass"
    /\ element = Body
    /\ ResultIds[1] \notin present
    /\ ResultIds[2] \notin present

\* C7 as claimed: a paste step into a text input, run when no copy step has
\* run, ends in the error of reading a clipboard that was never written,
\* whether or not the target field is in the DOM, and leaves every field
\* holding what it held.
C7_Original ==
    [][(/\ step = "paste"
        /\ Tag(locator) = "input"
        /\ ~copied.defined
        /\ pc # "done"
        /\ pc' = "done") =>
         outcome' = "AttributeError" /\ value' = value]_vars

\* C8: when a paste step has passed, the field it addressed holds exactly what
\* the copied field held at the moment of the last successful copy, whatever
\* the steps run in between did to the copied field.
C8_PasteHoldsCopied ==
    (step = "paste" /\ pc = "done" /\ outcome = "pass") =>
        /\ copied.defined
        /\ element = locator
        /\ value[locator] = copied.value

\* C8 witness: product_x was copied holding "a" and changed to "b" afterwards;
\* the paste into product_y_z has passed and left "a" there
C8_Witness ==
    /\ step = "paste"
    /\ outcome = "pass"
    /\ locator = ProductYZ
    /\ copied = [defined |-> TRUE, value |-> <<"a">>]
    /\ value[ProductX] = <<"b">>
    /\ value[ProductYZ] = <<"a">>
    /\ value[ProductS] = <<"a">>

\* C9: the press-button step clicks only after a poll that saw the resolved
\* button in the DOM and clickable, at that poll tick and on that button; when
\* no poll within the budget saw it clickable the step ends in a timeout and
\* has clicked nothing.
C9_ClickOnlyClickable ==
    /\ [][(step = "press" /\ pc = "wait" /\ pc' = "act") =>
            /\ locator \in present
            /\ locator \in clickable
            /\ observed' = elapsed]_vars
    /\ [][(step = "press" /\ clicked' \ clicked # {}) =>
            /\ pc = "act"
            /\ observed = elapsed
            /\ elapsed' = elapsed
            /\ clicked' = {locator}]_vars
    /\ []((step = "press" /\ pc = "done" /\ observed = -1) =>
            /\ outcome = "TimeoutException"
            /\ elapsed = WaitSeconds
            /\ clicked = {})

\* C9 witness: the button is in the DOM and not clickable, the step has timed
\* out and clicked nothing
C9_Witness ==
    /\ step = "press"
    /\ outcome = "TimeoutException"
    /\ locator \in present
    /\ locator \notin clickable
    /\ clicked = {}

\* what each polled step awaits, on the page as it is
C10_Condition ==
    /\ step \in {"copy", "paste", "change", "press", "see_field", "see_message"} =>
            locator \in present
    /\ step = "press" => locator \in clickable
    /\ step = "see_message" => Contains(text[locator], arg)
    /\ step = "see_field" => Contains(value[locator], arg)
    /\ step = "see_results" => ~stale /\ Contains(ElementText(element), arg)

\* C10: no polled step (copy, paste, change, press, message assertion, positive
\* results assertion, field-contains assertion) passes unless its awaited
\* condition held on the page at a poll tick taken within the wait budget.
C10_PassOnlyObserved ==
    /\ []((step \in PolledSteps /\ outcome = "pass") => observed \in 0..WaitSeconds)
    /\ [][(step \in PolledSteps /\ observed' # observed /\ step' = step /\ pc = "wait") =>
            /\ observed' = elapsed
            /\ elapsed <= WaitSeconds
            /\ C10_Condition]_vars
    /\ [][(step \in PolledSteps /\ outcome' = "pass" /\ outcome # "pass") =>
            observed' = observed /\ observed >= 0]_vars

\* C10 witness: the positive results assertion has passed on an observation
\* made at the last poll tick of the budget
C10_Witness ==
    /\ step = "see_results"
    /\ outcome = "pass"
    /\ observed = WaitSeconds

\* C11 as claimed: the set-field step, called on a text input that is not in
\* the DOM, waits for it: once the field is there within the wait budget the
\* step has not failed.
C11_Original ==
    (/\ step = "set"
     /\ Tag(locator) = "input"
     /\ pc = "done"
     /\ ~stale
     /\ elapsed <= WaitSeconds
     /\ locator \in present) => outcome = "pass"

\* C11 as amended: only copy, paste, change and field-contains go through a
\* presence wait before their first driver operation on the field.  Set-field,
\* select, read-dropdown and field-empty look the field up once, when they are
\* called, without waiting: with the field in the DOM at that moment they go
\* on, otherwise they fail at once with a no-such-element error and stay
\* failed even when the field becomes present within the budget.
C11_Amended ==
    /\ [][(step \in FieldFindSteps /\ pc = "find" /\ pc' # "find") =>
            IF locator \in present
            THEN pc' = "act" /\ element' = locator /\ outcome' = "none"
            ELSE /\ pc' = "done"
                 /\ outcome' = "NoSuchElementException"
                 /\ elapsed' = 0
                 /\ value' = value]_vars
    /\ [][(step \in FieldFindSteps /\ pc = "done" /\ outcome \in Failures) =>
            step' = step /\ outcome' = outcome]_vars
    /\ [](step \in FieldFindSteps => observed = -1 /\ pc # "wait")
    /\ []((step \in FieldWaitSteps /\ element # NoElement) =>
            observed \in 0..WaitSeconds)

\* C11 witness: set-field has failed on an absent field, and the field has
\* become present within the budget
C11_Witness ==
    /\ step = "set"
    /\ outcome = "NoSuchElementException"
    /\ elapsed = 1
    /\ locator \in present

\* C12: when a set-field or change-field step writing V has passed, the field
\* it addressed holds exactly V, whatever it held before, and no other field
\* has changed.
C12_WriteReadBack ==
    [][(step \in {"set", "change"} /\ pc = "act" /\ outcome' = "pass") =>
         /\ GetAttribute(locator)' = arg
         /\ \A f \in FieldIds \ {locator} : value'[f] = value[f]]_vars

\* C12 witness: change-field has written "b" over a different content
C12_Witness ==
    /\ step = "change"
    /\ outcome = "pass"
    /\ locator = ProductX
    /\ arg = <<"b">>
    /\ value[ProductX] = <<"b">>

\* the first message candidate in the DOM, in the order flash_message,
\* message, flash
C13_Locked ==
    IF MessageIds[1] \in present THEN MessageIds[1]
    ELSE IF MessageIds[2] \in present THEN MessageIds[2]
    ELSE MessageIds[3]

\* C13: the message assertion examines flash_message, message, flash in that
\* order and locks the first that is in the DOM for the rest of the call; the
\* wait returns only on that candidate being in the DOM with the message in
\* its text, so the message in another candidate does not make the step pass.
C13_LockedCandidate ==
    /\ [][(step = "see_message" /\ pc = "scan" /\ pc' = "wait") =>
            locator' = C13_Locked]_vars
    /\ [][(step = "see_message" /\ pc # "scan" /\ step' = step /\ pc' # "scan") =>
            locator' = locator]_vars
    /\ [][(step = "see_message" /\ pc = "wait" /\ pc' = "act") =>
            locator \in present /\ Contains(text[locator], arg)]_vars
    /\ []((step = "see_message" /\ outcome = "pass") => observed >= 0)

\* C13 witness: the step locked `message`; flash_message came up afterwards
\* showing the expected text, flash shows it too, and the step has timed out
C13_Witness ==
    /\ step = "see_message"
    /\ locator = MessageIds[2]
    /\ outcome = "TimeoutException"
    /\ MessageIds[1] \in present
    /\ Contains(text[MessageIds[1]], arg)
    /\ MessageIds[3] \in present
    /\ Contains(text[MessageIds[3]], arg)

\* the negative results assertion and the whole-page "should not see"
C14_Negative == {"not_see_results", "not_see"}

\* C14: the negative results assertion and the whole-page "should not see"
\* are single-shot: they never enter a wait, take no poll tick and never time
\* out; their outcome is read off the text their container has at the moment
\* of the check; a reported pass stays a pass whatever the page shows later.
C14_SingleShot ==
    /\ [](step \in C14_Negative =>
            /\ pc # "wait"
            /\ observed = -1
            /\ outcome # "TimeoutException"
            /\ (outcome \notin Failures => elapsed = 0))
    /\ [][(step \in C14_Negative /\ pc = "act" /\ pc' = "done" /\ ~stale) =>
            /\ outcome' \in {"pass", "AssertionError"}
            /\ outcome' = "pass" <=> ~Contains(ElementText(element), arg)]_vars
    /\ [][(step \in C14_Negative /\ pc = "done" /\ outcome = "pass" /\ pc' = "done") =>
            outcome' = "pass" /\ step' = step]_vars

\* C14 witness: a negative assertion has passed and its container shows the
\* text now
C14_Witness ==
    /\ step \in C14_Negative
    /\ pc = "done"
    /\ outcome = "pass"
    /\ Contains(ElementText(element), arg)

\* C15: every polled step terminates.  While it waits the elapsed time only
\* grows and stays within the wait budget, so the poll made once the budget
\* has elapsed ends the wait; a called step reaches its end whatever the page
\* does.  A timeout is raised only from the wait with the budget used up, is
\* final for the step, and comes with no element handle obtained, no click and
\* no write to a field or to the clipboard.
C15_Terminates ==
    /\ []((step \in PolledSteps /\ pc = "wait") => elapsed \in 0..WaitSeconds)
    /\ [][(pc = "wait" /\ pc' = "wait") =>
            elapsed' \in {elapsed, elapsed + 1}]_vars
    /\ [][(outcome' = "TimeoutException" /\ outcome # "TimeoutException") =>
            /\ step \in PolledSteps
            /\ pc = "wait"
            /\ pc' = "done"
            /\ elapsed = WaitSeconds
            /\ UNCHANGED <<value, clicked, ctx>>]_vars
    /\ [][outcome = "TimeoutException" =>
            /\ outcome' = "TimeoutException"
            /\ pc' = "done"
            /\ UNCHANGED <<value, clicked, ctx, call>>]_vars
    /\ [](outcome = "TimeoutException" => observed = -1 /\ clicked = {})
    /\ (step \in PolledSteps /\ pc # "done") ~> (pc = "done")

\* C15 witness: the press step has timed out on a button that is in the DOM
C15_Witness ==
    /\ step = "press"
    /\ outcome = "TimeoutException"
    /\ pc = "done"
    /\ elapsed = WaitSeconds
    /\ locator \in present
    /\ clicked = {}

\* C16: the clipboard is undefined until a copy step has passed; it is
\* written only by a copy step that passes, which stores the value the copied
\* field has at that moment; every other step, a paste and a copy that fails
\* or times out included, leaves it as it is.
C16_ClipboardFrame ==
    /\ [](~copied.defined => ~clipboard.defined)
    /\ [][clipboard' # clipboard =>
            /\ step = "copy"
            /\ pc = "act"
            /\ outcome' = "pass"
            /\ clipboard' = [defined |-> TRUE, value |-> value[locator]]]_vars
    /\ [][(step = "copy" /\ pc = "act" /\ outcome' = "pass") =>
            clipboard' = [defined |-> TRUE, value |-> value[locator]]]_vars
    /\ [][(step' # "copy" \/ outcome' # "pass") => clipboard' = clipboard]_vars

\* C16 witness: a paste has passed after a copy of "b", the clipboard still
\* holding "b"
C16_Witness ==
    /\ step = "paste"
    /\ outcome = "pass"
    /\ clipboard = [defined |-> TRUE, value |-> <<"b">>]

\* C17: a positive results assertion whose wait has observed the expected
\* text in the container at a poll tick within the budget passes, whatever
\* the page does to the container after that observation.
C17_Original ==
    (/\ step = "see_results"
     /\ pc = "done"
     /\ observed \in 0..WaitSeconds) => outcome = "pass"

\* C18: a paste step that fails because the clipboard was never
\* written or because the field did not become present within the budget
\* leaves every field value as it was.
C18_Original ==
    [][(/\ step = "paste"
        /\ pc # "done"
        /\ outcome' \in {"AttributeError", "TimeoutException"}) =>
          value' = value]_vars

====
